---- MODULE Spec2Model ----
(***************************************************************************)
(* Request handlers of the manager interface of the storage daemon         *)
(* (src/dbus_api/api/manager_3_0/methods.rs): create_pool with its         *)
(* validation, handle_pool_create, and the pool-setup wait                 *)
(* (handle_pool_create_wait) on the process-wide ledger POOL_SETUP_STATE   *)
(* and its condition variable POOL_CONDVAR; destroy_pool, set_key,         *)
(* unset_key, unlock_pool, list_keys and engine_state_report.              *)
(*                                                                         *)
(* Every request runs on its own thread: a member of Handlers for          *)
(* create_pool, a member of Clients for the other operations.  A thread    *)
(* takes one step at a time; the steps are cut at the points where another *)
(* thread can observe or change shared state: the engine calls, the        *)
(* acquisition of the ledger's mutex, and the block/wake of the condition  *)
(* variable.  The engine and the device-event producer are collaborators   *)
(* whose code is outside methods.rs; they are modelled at their boundary.  *)
(*                                                                         *)
(* Mutex poisoning (the Err arm of pool_notify_lock!) needs a thread that  *)
(* panics while it holds the ledger's mutex.  No statement that runs under *)
(* the mutex in methods.rs can panic, so the arm is not modelled.          *)
(***************************************************************************)
EXTENDS Integers, Sequences, FiniteSets, TLC

\* Number of request threads that run concurrently.
NumHandlers == 2

Handlers == 1..NumHandlers

\* The engine hands out a fresh pool identifier on every Created; one
\* request per thread needs at most NumHandlers of them.
UUIDs == 1..NumHandlers

\* Number of client threads that issue the other requests of the interface
\* (destroy_pool, set_key, unset_key, unlock_pool, list_keys,
\* engine_state_report).
NumClients == 2

Clients == 1..NumClients

\* PoolUuid::nil()
PoolUuid_nil == 0

(***************************************************************************)
(* Option<T>: None is the empty sequence, Some(x) the one-element one.     *)
(***************************************************************************)
None == <<>>

Some(x) == <<x>>

\* util::tuple_to_option: the D-Bus encoding (present, value) of an option.
tuple_to_option(t) == IF t[1] THEN Some(t[2]) ELSE None

(***************************************************************************)
(* Reply envelope and error classification.                                *)
(***************************************************************************)
\* DbusErrorEnum::OK as u16
DbusErrorEnum_OK == 0

\* DbusErrorEnum::ERROR as u16, the code engine_to_dbus_err_tuple gives.
DbusErrorEnum_ERROR == 1

\* A message text: its wording, and the number and the string it names.
Text(kind, n, s) == [kind |-> kind, n |-> n, s |-> s]

OK_STRING == Text("Ok", 0, "")

\* StratisError values, by their rendered description.
StratisError_Msg(kind, n, s) == Text(kind, n, s)

\* util::engine_to_dbus_err_tuple: (rc, rs) of an error; rc is never 0.
engine_to_dbus_err_tuple(err) == <<DbusErrorEnum_ERROR, err>>

\* Message::append3(payload, rc, rs): the reply message.
append3(payload, rc, rs) == [payload |-> payload, code |-> rc, msg |-> rs]

\* dbus::Path::default()
Path_default == <<"/", 0>>

\* create_pool's default_return: (false, (Path::default(), Vec::new()))
default_return == <<FALSE, <<Path_default, <<>>>>>>

\* Object paths registered for pool u and for its block devices
\* (create_dbus_pool, create_dbus_blockdev).
create_dbus_pool(u) == <<"pool", u>>

create_dbus_blockdev(u) == <<"blockdev", u>>

\* The completion record (pool_path, bd_paths) of pool u.
CompletionRecord(u) == <<create_dbus_pool(u), <<create_dbus_blockdev(u)>>>>

(***************************************************************************)
(* Inputs of create_pool.                                                  *)
(***************************************************************************)
RedundancyCodes == {0, 7}

RedundancyTuples == BOOLEAN \X RedundancyCodes

\* (present, string); the string of an absent one is the empty string, itself
\* no valid key description.
KeyDescTuples == {<<FALSE, "">>, <<TRUE, "keydesc">>, <<TRUE, "key;desc">>}

ClevisTuples ==
    { <<FALSE, <<"", "">>>>,
      <<TRUE, <<"tang", "{\"url\":\"tang\"}">>>>,
      <<TRUE, <<"tang", "{\"url\":">>>> }

\* KeyDescription::try_from: Ok(key description) or Err(error).
ValidKeyDescStrings == {"keydesc", "key2"}

KeyDescription_try_from(s) ==
    IF s \in ValidKeyDescStrings
      THEN [ok |-> TRUE, val |-> s]
      ELSE [ok |-> FALSE, val |-> StratisError_Msg("invalid key description", 0, s)]

\* serde_json::from_str: Ok(parsed value) or Err(error).
ParseableJsonTexts == {"{\"url\":\"tang\"}"}

serde_json_from_str(s) ==
    IF s \in ParseableJsonTexts
      THEN [ok |-> TRUE, val |-> <<"json", s>>]
      ELSE [ok |-> FALSE, val |-> StratisError_Msg("json parse error", 0, s)]

\* EncryptionInfo::from_options((key_desc, clevis_info)): None when both are absent.
EncryptionInfo_from_options(key_desc, clevis_info) ==
    IF key_desc = None /\ clevis_info = None
      THEN None
      ELSE Some([key_desc |-> key_desc, clevis_info |-> clevis_info])

(***************************************************************************)
(* create_pool: validation that precedes the engine call.                  *)
(***************************************************************************)
\* redundancy_check without the Some(0) arm: every present code is rejected.
redundancy_check_present(redundancy_tuple) ==
    IF ~redundancy_tuple[1]
      THEN <<>>
      ELSE <<[payload |-> default_return, code |-> 1,
              msg |-> Text("code does not correspond to any redundancy", redundancy_tuple[2], "")]>>

\* The redundancy match: None when the code is accepted, Some(reply) when rejected.
redundancy_check(redundancy_tuple) ==
    LET redundancy == tuple_to_option(redundancy_tuple) IN
      IF redundancy = None \/ redundancy = Some(0)
        THEN None
        ELSE Some(append3(default_return, 1,
                          Text("code does not correspond to any redundancy", redundancy[1], "")))

\* key_desc_check without KeyDescription::try_from: the string is passed on as it is.
key_desc_check_unvalidated(key_desc_tuple) ==
    [ok |-> TRUE, val |-> tuple_to_option(key_desc_tuple)]

\* The key_desc match: Ok(Option<KeyDescription>) or the reply that rejects it.
key_desc_check(key_desc_tuple) ==
    LET kds == tuple_to_option(key_desc_tuple) IN
      IF kds = None
        THEN [ok |-> TRUE, val |-> None]
        ELSE LET r == KeyDescription_try_from(kds[1]) IN
               IF r.ok
                 THEN [ok |-> TRUE, val |-> Some(r.val)]
                 ELSE LET t == engine_to_dbus_err_tuple(r.val) IN
                        [ok |-> FALSE, val |-> append3(default_return, t[1], t[2])]

\* The clevis_info match: Ok(Option<(pin, json)>) or the reply that rejects it.
clevis_info_check(clevis_tuple) ==
    LET c == tuple_to_option(clevis_tuple) IN
      IF c = None
        THEN [ok |-> TRUE, val |-> None]
        ELSE LET r == serde_json_from_str(c[1][2]) IN
               IF r.ok
                 THEN [ok |-> TRUE, val |-> Some(<<c[1][1], r.val>>)]
                 ELSE LET t == engine_to_dbus_err_tuple(r.val) IN
                        [ok |-> FALSE, val |-> append3(default_return, t[1], t[2])]

\* The early returns of create_pool in source order: redundancy, key
\* description, Clevis.  rejected: the request returns `reply` before the
\* engine call; otherwise `info` is the encryption info the engine is given.
create_pool_validate(redundancy_tuple, key_desc_tuple, clevis_tuple) ==
    LET red == redundancy_check(redundancy_tuple)
        kd  == key_desc_check(key_desc_tuple)
        cl  == clevis_info_check(clevis_tuple)
    IN  IF red # None THEN [rejected |-> TRUE, reply |-> red[1], info |-> None]
        ELSE IF ~kd.ok THEN [rejected |-> TRUE, reply |-> kd.val, info |-> None]
        ELSE IF ~cl.ok THEN [rejected |-> TRUE, reply |-> cl.val, info |-> None]
        ELSE [rejected |-> FALSE, reply |-> append3(default_return, DbusErrorEnum_OK, OK_STRING),
              info |-> EncryptionInfo_from_options(kd.val, cl.val)]

(***************************************************************************)
(* The ledger: HashMap<PoolUuid, Option<(Path, Vec<Path>)>>.               *)
(***************************************************************************)
HashMap_insert(m, k, v) == [x \in DOMAIN m \cup {k} |-> IF x = k THEN v ELSE m[x]]

HashMap_get(m, k) == IF k \in DOMAIN m THEN Some(m[k]) ELSE None

HashMap_remove(m, k) == [x \in DOMAIN m \ {k} |-> m[x]]

HashMap_new == [x \in {} |-> None]

\* The mutex of POOL_SETUP_STATE is free.
NoOwner == 0

\* An action of the engine as a request records it: its tag and the
\* identifiers it carries.  NoAction: the engine was not asked.
Action(tag, ids) == [tag |-> tag, ids |-> ids]

NoAction == Action("None", <<>>)

\* A reply returned to a client together with the request it answers: the
\* operation, its key description or pool path, the engine's action, and
\* the message.
Reply(op, key, path, act, msg) ==
    [op |-> op, key |-> key, path |-> path, act |-> act, msg |-> <<msg>>]

\* No client request has been answered yet.
NoReply ==
    [op |-> "none", key |-> "", path |-> Path_default, act |-> NoAction, msg |-> <<>>]

(***************************************************************************)
(* State.                                                                  *)
(***************************************************************************)
VARIABLES
    pc,                \* per thread: the statement it is at
    uuid,              \* per thread: the identifier of Created(uuid), else nil
    reply,             \* per thread: the messages returned (MethodResult's vec)
    timeout,           \* per thread: WaitTimeoutResult::timed_out()
    elapsed,           \* per thread: 120 s have passed since the wait began
    POOL_SETUP_STATE,  \* the ledger
    lock,              \* the thread that holds the ledger's mutex, or NoOwner
    is_sim,            \* engine.is_sim()
    next_uuid,         \* the engine's next fresh pool identifier
    pools,             \* the pools the engine holds
    published,         \* identifiers whose device-event publication has run
    engine_calls,      \* per thread: how often it has called engine.create_pool
    engine_arg,        \* the encryption info of the latest engine.create_pool call
    removed,           \* per thread: what guard.remove(&uuid) returned, once run
    finalized,         \* per identifier: how often its entry was taken out
    stored,            \* identifiers whose record the producer has stored
    early,             \* identifiers published before their entry was inserted
    tree,              \* the object paths registered in the D-Bus tree
    announced,         \* per identifier: how often push_remove ran for its pool path
    keys,              \* the engine's key handler: key description -> passphrase
    key_handler,       \* the client that holds the key handler's guard, or NoOwner
    cpc,               \* per client thread: the statement it is at
    cpath,             \* per client thread: pool_path of its destroy_pool request
    ckey,              \* per client thread: key_desc_str of its key request
    cfd,               \* per client thread: the passphrase behind key_fd
    caction,           \* per client thread: what engine.destroy_pool returned
    sent               \* the latest reply returned to a client, with its request

handler_vars == <<pc, uuid, reply, timeout, elapsed, engine_calls, removed>>

ledger_vars == <<POOL_SETUP_STATE, lock, finalized, stored>>

engine_vars == <<is_sim, next_uuid, pools, published, engine_arg>>

client_vars == <<cpc, cpath, ckey, cfd, caction, sent>>

key_vars == <<keys, key_handler>>

registry_vars == <<tree, announced>>

api_vars == <<client_vars, key_vars, registry_vars, early>>

vars == <<handler_vars, ledger_vars, engine_vars, api_vars>>

Init ==
    /\ pc = [h \in Handlers |-> "create_pool"]
    /\ uuid = [h \in Handlers |-> PoolUuid_nil]
    /\ reply = [h \in Handlers |-> <<>>]
    /\ timeout = [h \in Handlers |-> FALSE]
    /\ elapsed = [h \in Handlers |-> FALSE]
    /\ POOL_SETUP_STATE = HashMap_new
    /\ lock = NoOwner
    /\ is_sim \in BOOLEAN
    /\ next_uuid = 1
    /\ pools = {}
    /\ published = {}
    /\ engine_calls = [h \in Handlers |-> 0]
    /\ engine_arg = None
    /\ removed = [h \in Handlers |-> <<>>]
    /\ finalized = [u \in UUIDs |-> 0]
    /\ stored = {}
    /\ early = {}
    /\ tree = {}
    /\ announced = [u \in UUIDs |-> 0]
    /\ keys = HashMap_new
    /\ cpc = [c \in Clients |-> "idle"]
    /\ cpath = [c \in Clients |-> Path_default]
    /\ ckey = [c \in Clients |-> ""]
    /\ cfd = [c \in Clients |-> ""]
    /\ key_handler = NoOwner
    /\ caction = [c \in Clients |-> NoAction]
    /\ sent = NoReply

(***************************************************************************)
(* The engine at its boundary.                                             *)
(***************************************************************************)
Created(u) == [tag |-> "Created", uuid |-> u]

Identity == [tag |-> "Identity", uuid |-> PoolUuid_nil]

EngineErr == [tag |-> "Err", uuid |-> PoolUuid_nil]

\* engine.create_pool: Created with a fresh identifier, Identity when a pool
\* of that name and those devices exists already, or an error.
engine_create_pool ==
    {Created(next_uuid)} \cup (IF pools = {} THEN {} ELSE {Identity}) \cup {EngineErr}

(***************************************************************************)
(* handle_pool_create and the tail of create_pool.                         *)
(***************************************************************************)
\* created_uuid with a fixed identifier in place of the one the engine returned.
created_uuid_fixed(uuid_action) ==
    IF uuid_action.tag = "Created" THEN 1 ELSE PoolUuid_nil

\* The identifier handle_pool_create binds in Created(uuid) and hands to
\* handle_pool_create_wait; nil when there is none.
created_uuid(uuid_action) == uuid_action.uuid

\* handle_pool_create without the is_sim test: every Created pool is waited for.
handle_pool_create_always_wait(uuid_action, sim) ==
    IF uuid_action.tag = "Created" THEN "lock" ELSE "done"

\* The statement handle_pool_create goes to for an action of the engine.
handle_pool_create(uuid_action, sim) ==
    IF uuid_action.tag = "Created"
      THEN IF sim THEN "get_pool" ELSE "lock"
      ELSE "done"

\* The match on the engine's result: what the request returns at once, if anything.
create_pool_result(result, sim) ==
    IF result.tag = "Err"
      THEN LET t == engine_to_dbus_err_tuple(StratisError_Msg("engine error", 0, "")) IN
             <<append3(default_return, t[1], t[2])>>
      ELSE IF handle_pool_create(result, sim) = "done"
             THEN <<append3(default_return, DbusErrorEnum_OK, OK_STRING)>>
             ELSE <<>>

create_pool(h, redundancy_tuple, key_desc_tuple, clevis_tuple) ==
    /\ pc[h] = "create_pool"
    /\ LET v == create_pool_validate(redundancy_tuple, key_desc_tuple, clevis_tuple) IN
         IF v.rejected
           THEN /\ reply' = [reply EXCEPT ![h] = <<v.reply>>]
                /\ pc' = [pc EXCEPT ![h] = "done"]
                /\ UNCHANGED <<uuid, engine_calls, engine_arg, next_uuid, pools>>
           ELSE \E result \in engine_create_pool :
                /\ engine_calls' = [engine_calls EXCEPT ![h] = @ + 1]
                /\ engine_arg' = v.info
                /\ next_uuid' = IF result.tag = "Created" THEN next_uuid + 1 ELSE next_uuid
                /\ pools' = IF result.tag = "Created" THEN pools \cup {result.uuid} ELSE pools
                /\ uuid' = [uuid EXCEPT ![h] = created_uuid(result)]
                /\ reply' = [reply EXCEPT ![h] = create_pool_result(result, is_sim)]
                /\ pc' = [pc EXCEPT ![h] =
                            IF result.tag = "Err" THEN "done"
                            ELSE handle_pool_create(result, is_sim)]
    /\ UNCHANGED <<timeout, elapsed, removed, ledger_vars, is_sim, published>>
    /\ UNCHANGED api_vars

\* The D-Bus tree after create_dbus_pool has registered the path of pool u.
register(t, u) == t \cup {create_dbus_pool(u)}

\* The simulated engine: get_pool, then the reply with the paths just registered.
handle_pool_create_sim(h) ==
    /\ pc[h] = "get_pool"
    /\ IF uuid[h] \in pools
         THEN /\ reply' = [reply EXCEPT ![h] =
                    <<append3(<<TRUE, CompletionRecord(uuid[h])>>, DbusErrorEnum_OK, OK_STRING)>>]
              /\ tree' = register(tree, uuid[h])
              /\ pc' = [pc EXCEPT ![h] = "done"]
         ELSE /\ pc' = [pc EXCEPT ![h] = "panicked"]
              /\ UNCHANGED <<reply, tree>>
    /\ UNCHANGED <<uuid, timeout, elapsed, engine_calls, removed, ledger_vars, engine_vars>>
    /\ UNCHANGED <<client_vars, key_vars, announced, early>>

(***************************************************************************)
(* handle_pool_create_wait.                                                *)
(***************************************************************************)
\* (*POOL_SETUP_STATE).lock(): blocks until the mutex is free.
lock_state(h) ==
    /\ pc[h] = "lock"
    /\ lock = NoOwner
    /\ lock' = h
    /\ pc' = [pc EXCEPT ![h] = "insert"]
    /\ UNCHANGED <<uuid, reply, timeout, elapsed, engine_calls, removed,
                   POOL_SETUP_STATE, finalized, stored, engine_vars>>
    /\ UNCHANGED api_vars

\* The ledger after guard.insert(uuid, None).
insert_entry(state, u) == HashMap_insert(state, u, None)

\* guard.insert(uuid, None); the guard stays held, and the wait's clock starts.
insert(h) ==
    /\ pc[h] = "insert"
    /\ lock = h
    /\ POOL_SETUP_STATE' = insert_entry(POOL_SETUP_STATE, uuid[h])
    /\ elapsed' = [elapsed EXCEPT ![h] = FALSE]
    /\ pc' = [pc EXCEPT ![h] = "wait"]
    /\ UNCHANGED <<uuid, reply, timeout, engine_calls, removed, lock, finalized, stored, engine_vars>>
    /\ UNCHANGED api_vars

\* condition that looks at every record of the ledger, not at the one of
\* uuid: keep waiting while no record at all is present.
condition_any_record(state, u) ==
    u \in DOMAIN state /\ \A k \in DOMAIN state : state[k] = <<>>

\* The closure given to wait_timeout_while: TRUE means keep waiting.
condition(state, u) ==
    LET paths == HashMap_get(state, u) IN
      IF paths # None THEN paths[1] = None ELSE FALSE

\* wait_timeout_while as a single timed wait: the condition is not evaluated,
\* neither before blocking nor after a wake.
wait_timeout_unconditional(state, u, time_up) ==
    IF time_up THEN "timed_out" ELSE "block"

\* wait_timeout_while without its deadline: the plain wait_while.
wait_while(state, u, time_up) ==
    IF u \in DOMAIN state /\ state[u] = <<>> THEN "block" ELSE "ready"

\* One turn of wait_timeout_while's loop, with the guard held: return
\* because the condition is false ("ready"), return because the time is
\* up ("timed_out"), or release the guard and block ("block").
wait_timeout_while(state, u, time_up) ==
    IF ~condition(state, u) THEN "ready"
    ELSE IF time_up THEN "timed_out"
    ELSE "block"

wait(h) ==
    /\ pc[h] = "wait"
    /\ lock = h
    /\ LET turn == wait_timeout_while(POOL_SETUP_STATE, uuid[h], elapsed[h]) IN
         IF turn = "block"
           THEN /\ lock' = NoOwner
                /\ pc' = [pc EXCEPT ![h] = "blocked"]
                /\ UNCHANGED timeout
           ELSE /\ timeout' = [timeout EXCEPT ![h] = (turn = "timed_out")]
                /\ pc' = [pc EXCEPT ![h] = "remove"]
                /\ UNCHANGED lock
    /\ UNCHANGED <<uuid, reply, elapsed, engine_calls, removed,
                   POOL_SETUP_STATE, finalized, stored, engine_vars>>
    /\ UNCHANGED api_vars

\* The 120 s of Duration::from_secs(120) run out while the thread is in the wait.
Tick(h) ==
    /\ pc[h] \in {"wait", "blocked", "woken"}
    /\ ~elapsed[h]
    /\ elapsed' = [elapsed EXCEPT ![h] = TRUE]
    /\ UNCHANGED <<pc, uuid, reply, timeout, engine_calls, removed, ledger_vars, engine_vars>>
    /\ UNCHANGED api_vars

\* Condvar::wait_timeout returns because its time is up.
TimeoutWake(h) ==
    /\ pc[h] = "blocked"
    /\ elapsed[h]
    /\ pc' = [pc EXCEPT ![h] = "woken"]
    /\ UNCHANGED <<uuid, reply, timeout, elapsed, engine_calls, removed, ledger_vars, engine_vars>>
    /\ UNCHANGED api_vars

\* Condvar::wait_timeout returns spuriously.
SpuriousWake(h) ==
    /\ pc[h] = "blocked"
    /\ ~elapsed[h]
    /\ pc' = [pc EXCEPT ![h] = "woken"]
    /\ UNCHANGED <<uuid, reply, timeout, elapsed, engine_calls, removed, ledger_vars, engine_vars>>
    /\ UNCHANGED api_vars

\* A woken thread takes the mutex again before wait_timeout returns.
reacquire(h) ==
    /\ pc[h] = "woken"
    /\ lock = NoOwner
    /\ lock' = h
    /\ pc' = [pc EXCEPT ![h] = "wait"]
    /\ UNCHANGED <<uuid, reply, timeout, elapsed, engine_calls, removed,
                   POOL_SETUP_STATE, finalized, stored, engine_vars>>
    /\ UNCHANGED api_vars

\* remove_entry that cleans up only on the success path: an entry whose
\* record is absent is left in the ledger.
remove_entry_if_present(state, u) ==
    IF u \in DOMAIN state /\ state[u] # <<>> THEN HashMap_remove(state, u) ELSE state

\* remove_entry as a read: guard.get(&uuid) in place of guard.remove(&uuid).
get_entry(state, u) == state

\* The ledger after guard.remove(&uuid).
remove_entry(state, u) == HashMap_remove(state, u)

\* wait_reply with the inner option not looked at: any entry taken out is
\* answered as success, an absent record with the default paths.
wait_reply_any_entry(taken, u) ==
    IF taken # None
      THEN append3(<<TRUE, IF taken[1] # None THEN taken[1][1] ELSE <<Path_default, <<>>>>>>,
                   DbusErrorEnum_OK, OK_STRING)
      ELSE LET t == engine_to_dbus_err_tuple(
                      StratisError_Msg("Pool with UUID was not found after creation was requested", u, ""))
           IN  append3(default_return, t[1], t[2])

\* The reply made of what guard.remove(&uuid) returned.
wait_reply(taken, u) ==
    IF taken # None /\ taken[1] # None
      THEN append3(<<TRUE, taken[1][1]>>, DbusErrorEnum_OK, OK_STRING)
      ELSE LET err == StratisError_Msg("Pool with UUID was not found after creation was requested", u, "")
               t   == engine_to_dbus_err_tuple(err)
           IN  append3(default_return, t[1], t[2])

\* guard.remove(&uuid), the reply, and the guard dropped on return.
remove(h) ==
    /\ pc[h] = "remove"
    /\ lock = h
    /\ LET taken == HashMap_get(POOL_SETUP_STATE, uuid[h]) IN
         /\ removed' = [removed EXCEPT ![h] = <<taken>>]
         /\ reply' = [reply EXCEPT ![h] = <<wait_reply(taken, uuid[h])>>]
    /\ POOL_SETUP_STATE' = remove_entry(POOL_SETUP_STATE, uuid[h])
    /\ finalized' = [u \in UUIDs |->
                       finalized[u] + Cardinality((DOMAIN POOL_SETUP_STATE \ DOMAIN POOL_SETUP_STATE') \cap {u})]
    /\ lock' = NoOwner
    /\ pc' = [pc EXCEPT ![h] = "done"]
    /\ UNCHANGED <<uuid, timeout, elapsed, engine_calls, stored, engine_vars>>
    /\ UNCHANGED api_vars

(***************************************************************************)
(* The device-event path (the producer): once the physical setup of pool u *)
(* has finished it takes the ledger's mutex, stores the completion record  *)
(* if u is in the ledger, and wakes every waiter.                          *)
(***************************************************************************)
\* POOL_CONDVAR.notify_all(): every blocked thread is woken.
notify_all(pcs) == [h \in Handlers |-> IF pcs[h] = "blocked" THEN "woken" ELSE pcs[h]]

\* The ledger after the producer's store for u.
publish_entry(state, u) ==
    IF u \in DOMAIN state THEN HashMap_insert(state, u, Some(CompletionRecord(u))) ELSE state

\* The publication of u runs before the request that created u has
\* inserted its entry.
before_insert(u) ==
    \E h \in Handlers : uuid[h] = u /\ pc[h] \in {"lock", "insert"}

Publish(u) ==
    /\ ~is_sim
    /\ u \in pools
    /\ u \notin published
    /\ lock = NoOwner
    /\ POOL_SETUP_STATE' = publish_entry(POOL_SETUP_STATE, u)
    /\ pc' = notify_all(pc)
    /\ published' = published \cup {u}
    /\ stored' = IF u \in DOMAIN POOL_SETUP_STATE THEN stored \cup {u} ELSE stored
    /\ early' = IF before_insert(u) THEN early \cup {u} ELSE early
    /\ tree' = register(tree, u)
    /\ UNCHANGED <<uuid, reply, timeout, elapsed, engine_calls, removed,
                   lock, finalized, is_sim, next_uuid, pools, engine_arg>>
    /\ UNCHANGED <<client_vars, key_vars, announced>>

(***************************************************************************)
(* destroy_pool.  The handler resolves pool_path in the D-Bus tree, calls  *)
(* the engine, announces the removal of the path when the engine deleted   *)
(* the pool, and replies.  The registry that receives the announcement     *)
(* takes the path out of the tree on its own thread (tree_remove).         *)
(* typed_uuid!'s arm for an object that is no pool is outside methods.rs;  *)
(* the paths a request names here are pool paths and the root.             *)
(***************************************************************************)
\* The pool paths a destroy_pool request may name, registered or not.
PoolPaths == {create_dbus_pool(u) : u \in UUIDs} \cup {Path_default}

\* uuid_to_string!(u): the identifier rendered as a string.
uuid_to_string(u) == <<"uuid", u>>

\* destroy_pool's default_return: (false, uuid_to_string!(PoolUuid::nil()))
destroy_pool_default_return == <<FALSE, uuid_to_string(PoolUuid_nil)>>

\* tree_get that resolves every pool path, registered in the tree or not.
tree_get_unregistered(t, pool_path) ==
    IF pool_path # Path_default THEN Some(pool_path[2]) ELSE None

\* m.tree.get(&pool_path).and_then(|op| op.get_data().as_ref()).map(|d| &d.uuid)
tree_get(t, pool_path) ==
    IF pool_path \in t THEN Some(pool_path[2]) ELSE None

\* engine.destroy_pool(u): Deleted(u) or an error while the engine holds
\* pool u, Identity when it holds no such pool.
engine_destroy_pool(u) ==
    IF u \in pools
      THEN {Action("Deleted", <<u>>), Action("Err", <<>>)}
      ELSE {Action("Identity", <<>>)}

\* destroy_pool_unresolved as a fault: an unknown path answered with an error.
destroy_pool_unresolved_error ==
    LET t == engine_to_dbus_err_tuple(StratisError_Msg("pool path not found", 0, "")) IN
      append3(destroy_pool_default_return, t[1], t[2])

\* The reply for a path that resolves to no pool: the None arm.
destroy_pool_unresolved == append3(destroy_pool_default_return, DbusErrorEnum_OK, OK_STRING)

\* destroy_pool_after_engine with push_remove in the Identity arm as well.
destroy_pool_after_engine_always_remove(act) ==
    IF act.tag = "Err" THEN "destroy_reply" ELSE "push_remove"

\* The statement after the engine call: push_remove only in the Deleted arm.
destroy_pool_after_engine(act) ==
    IF act.tag = "Deleted" THEN "push_remove" ELSE "destroy_reply"

\* The match on the result of engine.destroy_pool.
destroy_pool_reply(act) ==
    IF act.tag = "Deleted"
      THEN append3(<<TRUE, uuid_to_string(act.ids[1])>>, DbusErrorEnum_OK, OK_STRING)
    ELSE IF act.tag = "Identity"
      THEN append3(destroy_pool_default_return, DbusErrorEnum_OK, OK_STRING)
    ELSE LET t == engine_to_dbus_err_tuple(StratisError_Msg("engine error", 0, "")) IN
           append3(destroy_pool_default_return, t[1], t[2])

\* The lookup of pool_path: the reply at once when it resolves to nothing.
destroy_pool(c, pool_path) ==
    /\ cpc[c] = "idle"
    /\ IF tree_get(tree, pool_path) = None
         THEN /\ sent' = Reply("destroy_pool", "", pool_path, NoAction, destroy_pool_unresolved)
              /\ UNCHANGED <<cpc, cpath>>
         ELSE /\ cpc' = [cpc EXCEPT ![c] = "destroy_engine"]
              /\ cpath' = [cpath EXCEPT ![c] = pool_path]
              /\ UNCHANGED sent
    /\ UNCHANGED <<ckey, cfd, caction, key_vars, registry_vars, early>>
    /\ UNCHANGED <<handler_vars, ledger_vars, engine_vars>>

\* block_on(engine.destroy_pool(pool_uuid)); the Identity and the Err arm
\* reply at once.
destroy_engine(c) ==
    /\ cpc[c] = "destroy_engine"
    /\ \E act \in engine_destroy_pool(cpath[c][2]) :
          /\ pools' = IF act.tag = "Deleted" THEN pools \ {cpath[c][2]} ELSE pools
          /\ IF destroy_pool_after_engine(act) = "push_remove"
               THEN /\ caction' = [caction EXCEPT ![c] = act]
                    /\ cpc' = [cpc EXCEPT ![c] = "push_remove"]
                    /\ UNCHANGED <<cpath, sent>>
               ELSE /\ sent' = Reply("destroy_pool", "", cpath[c], act, destroy_pool_reply(act))
                    /\ cpc' = [cpc EXCEPT ![c] = "idle"]
                    /\ cpath' = [cpath EXCEPT ![c] = Path_default]
                    /\ UNCHANGED caction
    /\ UNCHANGED <<ckey, cfd, key_vars, registry_vars, early>>
    /\ UNCHANGED <<handler_vars, ledger_vars, is_sim, next_uuid, published, engine_arg>>

\* dbus_context.push_remove(&pool_path, ...): the removal announcement.
push_remove(c) ==
    /\ cpc[c] = "push_remove"
    /\ announced' = [announced EXCEPT ![cpath[c][2]] = @ + 1]
    /\ cpc' = [cpc EXCEPT ![c] = "destroy_reply"]
    /\ UNCHANGED <<cpath, ckey, cfd, caction, sent, key_vars, tree, early>>
    /\ UNCHANGED <<handler_vars, ledger_vars, engine_vars>>

\* The reply of the Deleted arm.
destroy_reply(c) ==
    /\ cpc[c] = "destroy_reply"
    /\ sent' = Reply("destroy_pool", "", cpath[c], caction[c],
                     destroy_pool_reply(caction[c]))
    /\ cpc' = [cpc EXCEPT ![c] = "idle"]
    /\ cpath' = [cpath EXCEPT ![c] = Path_default]
    /\ caction' = [caction EXCEPT ![c] = NoAction]
    /\ UNCHANGED <<ckey, cfd, key_vars, registry_vars, early>>
    /\ UNCHANGED <<handler_vars, ledger_vars, engine_vars>>

\* The registry takes an announced path out of the tree.
tree_remove(u) ==
    /\ announced[u] > 0
    /\ create_dbus_pool(u) \in tree
    /\ tree' = tree \ {create_dbus_pool(u)}
    /\ UNCHANGED <<client_vars, key_vars, announced, early>>
    /\ UNCHANGED <<handler_vars, ledger_vars, engine_vars>>

(***************************************************************************)
(* set_key and unset_key.  In both the receiver of the method call,        *)
(* block_on(engine.get_key_handler_mut()), is evaluated before the         *)
(* argument, the match on KeyDescription::try_from with its early return:  *)
(* the thread first obtains the key handler's guard (it blocks while       *)
(* another thread holds it), then validates the key description, and the   *)
(* guard is dropped when the statement ends or the function returns.       *)
(***************************************************************************)
\* The key descriptions and passphrases a request may carry.
KeyDescStrings == ValidKeyDescStrings \cup {"key;desc"}

KeyFds == {"pass1", "pass2"}

\* set_key's default_return: (false, false)
set_key_default_return == <<FALSE, FALSE>>

\* unset_key's default_return: false
unset_key_default_return == FALSE

\* key_handler.set(kd, fd): Created for a new description, ValueChanged
\* when the passphrase differs from the registered one, Identity when it
\* is the same; or an error.
engine_key_set(ks, kd, fd) ==
    {Action("Err", <<>>)} \cup
      (IF kd \notin DOMAIN ks THEN {Action("Created", <<>>)}
       ELSE IF ks[kd] # fd THEN {Action("ValueChanged", <<>>)}
       ELSE {Action("Identity", <<>>)})

\* key_handler.unset(kd): Deleted for a registered description (or an
\* error), Identity for one that is not registered.
engine_key_unset(ks, kd) ==
    IF kd \in DOMAIN ks THEN {Action("Deleted", <<>>), Action("Err", <<>>)}
    ELSE {Action("Identity", <<>>)}

\* The key store after an action of set or unset.
keys_after(ks, kd, fd, act) ==
    IF act.tag \in {"Created", "ValueChanged"} THEN HashMap_insert(ks, kd, fd)
    ELSE IF act.tag = "Deleted" THEN HashMap_remove(ks, kd)
    ELSE ks

\* The reply of set_key and unset_key to a key description try_from rejects.
key_desc_rejected(payload, key_desc_str) ==
    LET t == engine_to_dbus_err_tuple(KeyDescription_try_from(key_desc_str).val) IN
      append3(payload, t[1], t[2])

\* set_key_return_value with ValueChanged reported like Created.
set_key_return_value_unchanged(act) ==
    IF act.tag \in {"Created", "ValueChanged"} THEN <<TRUE, FALSE>> ELSE set_key_default_return

\* The match on idem_resp in set_key.
set_key_return_value(act) ==
    IF act.tag = "Created" THEN <<TRUE, FALSE>>
    ELSE IF act.tag = "ValueChanged" THEN <<TRUE, TRUE>>
    ELSE set_key_default_return

\* set_key_reply whose Err arm carries (true, false).
set_key_reply_err_payload(act) ==
    IF act.tag = "Err"
      THEN LET t == engine_to_dbus_err_tuple(StratisError_Msg("engine error", 0, "")) IN
             append3(<<TRUE, FALSE>>, t[1], t[2])
      ELSE append3(set_key_return_value(act), DbusErrorEnum_OK, OK_STRING)

\* The match on the result of key_handler.set.
set_key_reply(act) ==
    IF act.tag = "Err"
      THEN LET t == engine_to_dbus_err_tuple(StratisError_Msg("engine error", 0, "")) IN
             append3(set_key_default_return, t[1], t[2])
      ELSE append3(set_key_return_value(act), DbusErrorEnum_OK, OK_STRING)

\* unset_key_reply that answers Identity, nothing to delete, as a failure.
unset_key_reply_strict(act) ==
    IF act.tag \in {"Err", "Identity"}
      THEN LET t == engine_to_dbus_err_tuple(StratisError_Msg("engine error", 0, "")) IN
             append3(unset_key_default_return, t[1], t[2])
      ELSE append3(act.tag = "Deleted", DbusErrorEnum_OK, OK_STRING)

\* The match on the result of key_handler.unset.
unset_key_reply(act) ==
    IF act.tag = "Err"
      THEN LET t == engine_to_dbus_err_tuple(StratisError_Msg("engine error", 0, "")) IN
             append3(unset_key_default_return, t[1], t[2])
      ELSE append3(act.tag = "Deleted", DbusErrorEnum_OK, OK_STRING)

\* block_on(engine.get_key_handler_mut()): the receiver of .set(...).
set_key(c, key_desc_str, key_fd) ==
    /\ cpc[c] = "idle"
    /\ key_handler = NoOwner
    /\ key_handler' = c
    /\ ckey' = [ckey EXCEPT ![c] = key_desc_str]
    /\ cfd' = [cfd EXCEPT ![c] = key_fd]
    /\ cpc' = [cpc EXCEPT ![c] = "set_key_desc"]
    /\ UNCHANGED <<cpath, caction, sent, keys, registry_vars, early>>
    /\ UNCHANGED <<handler_vars, ledger_vars, engine_vars>>

\* The argument of .set(...), the call, and the reply; the guard is dropped.
set_key_desc(c) ==
    /\ cpc[c] = "set_key_desc"
    /\ IF ~KeyDescription_try_from(ckey[c]).ok
         THEN /\ sent' = Reply("set_key", ckey[c], Path_default, NoAction,
                               key_desc_rejected(set_key_default_return, ckey[c]))
              /\ UNCHANGED keys
         ELSE \E act \in engine_key_set(keys, ckey[c], cfd[c]) :
                /\ keys' = keys_after(keys, ckey[c], cfd[c], act)
                /\ sent' = Reply("set_key", ckey[c], Path_default, act, set_key_reply(act))
    /\ key_handler' = NoOwner
    /\ cpc' = [cpc EXCEPT ![c] = "idle"]
    /\ ckey' = [ckey EXCEPT ![c] = ""]
    /\ cfd' = [cfd EXCEPT ![c] = ""]
    /\ UNCHANGED <<cpath, caction, registry_vars, early>>
    /\ UNCHANGED <<handler_vars, ledger_vars, engine_vars>>

\* block_on(engine.get_key_handler_mut()): the receiver of .unset(...).
unset_key(c, key_desc_str) ==
    /\ cpc[c] = "idle"
    /\ key_handler = NoOwner
    /\ key_handler' = c
    /\ ckey' = [ckey EXCEPT ![c] = key_desc_str]
    /\ cpc' = [cpc EXCEPT ![c] = "unset_key_desc"]
    /\ UNCHANGED <<cpath, cfd, caction, sent, keys, registry_vars, early>>
    /\ UNCHANGED <<handler_vars, ledger_vars, engine_vars>>

\* The argument of .unset(...), the call, and the reply; the guard is dropped.
unset_key_desc(c) ==
    /\ cpc[c] = "unset_key_desc"
    /\ IF ~KeyDescription_try_from(ckey[c]).ok
         THEN /\ sent' = Reply("unset_key", ckey[c], Path_default, NoAction,
                               key_desc_rejected(unset_key_default_return, ckey[c]))
              /\ UNCHANGED keys
         ELSE \E act \in engine_key_unset(keys, ckey[c]) :
                /\ keys' = keys_after(keys, ckey[c], "", act)
                /\ sent' = Reply("unset_key", ckey[c], Path_default, act, unset_key_reply(act))
    /\ key_handler' = NoOwner
    /\ cpc' = [cpc EXCEPT ![c] = "idle"]
    /\ ckey' = [ckey EXCEPT ![c] = ""]
    /\ UNCHANGED <<cpath, cfd, caction, registry_vars, early>>
    /\ UNCHANGED <<handler_vars, ledger_vars, engine_vars>>

(***************************************************************************)
(* unlock_pool, list_keys and engine_state_report: one engine call each.   *)
(***************************************************************************)
PoolUuidStrings == {"uuid1", "not-a-uuid"}

UnlockMethodStrings == {"keyring", "bogus"}

\* PoolUuid::parse_str: Ok(identifier) or Err(error).
PoolUuid_parse_str(s) ==
    IF s = "uuid1"
      THEN [ok |-> TRUE, val |-> 1]
      ELSE [ok |-> FALSE, val |-> StratisError_Msg("invalid UUID", 0, s)]

\* UnlockMethod::try_from: Ok(method) or Err(error).
UnlockMethod_try_from(s) ==
    IF s \in {"keyring", "clevis"}
      THEN [ok |-> TRUE, val |-> s]
      ELSE [ok |-> FALSE, val |-> StratisError_Msg("invalid unlock method", 0, s)]

\* unlock_pool's default_return: (false, Vec::new())
unlock_pool_default_return == <<FALSE, <<>>>>

\* engine.unlock_pool: the devices it unlocked, none or some, or an error.
engine_unlock_pool == {Action("Unlocked", <<>>), Action("Unlocked", <<1>>), Action("Err", <<>>)}

\* SetUnlockAction::changed(): None when no device was unlocked.
SetUnlockAction_changed(act) == IF act.ids = <<>> THEN None ELSE Some(act.ids)

\* The early returns of unlock_pool in source order: the identifier, the method.
unlock_pool_validate(pool_uuid_str, unlock_method_str) ==
    LET id == PoolUuid_parse_str(pool_uuid_str)
        um == UnlockMethod_try_from(unlock_method_str)
    IN  IF ~id.ok
          THEN LET e == StratisError_Msg("Malformed UUID passed to UnlockPool", 0, pool_uuid_str)
                   t == engine_to_dbus_err_tuple(e)
               IN  Some(append3(unlock_pool_default_return, t[1], t[2]))
        ELSE IF ~um.ok
          THEN LET t == engine_to_dbus_err_tuple(um.val) IN
                 Some(append3(unlock_pool_default_return, t[1], t[2]))
        ELSE None

\* The match on the result of engine.unlock_pool.
unlock_pool_reply(act) ==
    IF act.tag = "Err"
      THEN LET t == engine_to_dbus_err_tuple(StratisError_Msg("engine error", 0, "")) IN
             append3(unlock_pool_default_return, t[1], t[2])
      ELSE LET changed == SetUnlockAction_changed(act) IN
             IF changed # None
               THEN append3(<<TRUE, [i \in DOMAIN changed[1] |-> uuid_to_string(changed[1][i])]>>,
                            DbusErrorEnum_OK, OK_STRING)
               ELSE append3(unlock_pool_default_return, DbusErrorEnum_OK, OK_STRING)

unlock_pool(c, pool_uuid_str, unlock_method_str) ==
    /\ cpc[c] = "idle"
    /\ LET v == unlock_pool_validate(pool_uuid_str, unlock_method_str) IN
         IF v # None
           THEN sent' = Reply("unlock_pool", "", Path_default, NoAction, v[1])
           ELSE \E act \in engine_unlock_pool :
                  sent' = Reply("unlock_pool", "", Path_default, act, unlock_pool_reply(act))
    /\ UNCHANGED <<cpc, cpath, ckey, cfd, caction, key_vars, registry_vars, early>>
    /\ UNCHANGED <<handler_vars, ledger_vars, engine_vars>>

\* The registered key descriptions as a list.
RECURSIVE SetToSeq(_)
SetToSeq(S) ==
    IF S = {} THEN <<>>
    ELSE LET x == CHOOSE y \in S : TRUE IN <<x>> \o SetToSeq(S \ {x})

\* key_handler.list(): the registered key descriptions, or an error.
engine_key_list(ks) == {[ok |-> TRUE, val |-> SetToSeq(DOMAIN ks)], [ok |-> FALSE, val |-> <<>>]}

\* list_keys's default_return: Vec::new()
list_keys_default_return == <<>>

\* The match on the result of key_handler.list.
list_keys_reply(res) ==
    IF res.ok
      THEN append3(res.val, DbusErrorEnum_OK, OK_STRING)
      ELSE LET t == engine_to_dbus_err_tuple(StratisError_Msg("engine error", 0, "")) IN
             append3(list_keys_default_return, t[1], t[2])

\* block_on(engine.get_key_handler()).list(): the guard is taken for the call.
list_keys(c) ==
    /\ cpc[c] = "idle"
    /\ key_handler = NoOwner
    /\ \E res \in engine_key_list(keys) :
          sent' = Reply("list_keys", "", Path_default, NoAction, list_keys_reply(res))
    /\ UNCHANGED <<cpc, cpath, ckey, cfd, caction, key_vars, registry_vars, early>>
    /\ UNCHANGED <<handler_vars, ledger_vars, engine_vars>>

\* serde_json::to_string(&engine.engine_state_report()): Ok(text) or Err(error).
serde_json_to_string ==
    {[ok |-> TRUE, val |-> "{\"pools\":[]}"], [ok |-> FALSE, val |-> ""]}

\* engine_state_report's default_return: String::new()
engine_state_report_default_return == ""

\* The match on the result of serde_json::to_string.
engine_state_report_reply(res) ==
    IF res.ok
      THEN append3(res.val, DbusErrorEnum_OK, OK_STRING)
      ELSE LET t == engine_to_dbus_err_tuple(StratisError_Msg("json error", 0, "")) IN
             append3(engine_state_report_default_return, t[1], t[2])

engine_state_report(c) ==
    /\ cpc[c] = "idle"
    /\ \E res \in serde_json_to_string :
          sent' = Reply("engine_state_report", "", Path_default, NoAction,
                        engine_state_report_reply(res))
    /\ UNCHANGED <<cpc, cpath, ckey, cfd, caction, key_vars, registry_vars, early>>
    /\ UNCHANGED <<handler_vars, ledger_vars, engine_vars>>

(***************************************************************************)
(* Specification.                                                          *)
(***************************************************************************)
Next ==
    \/ \E h \in Handlers, r \in RedundancyTuples, k \in KeyDescTuples, c \in ClevisTuples :
          create_pool(h, r, k, c)
    \/ \E h \in Handlers : handle_pool_create_sim(h)
    \/ \E h \in Handlers : lock_state(h)
    \/ \E h \in Handlers : insert(h)
    \/ \E h \in Handlers : wait(h)
    \/ \E h \in Handlers : Tick(h)
    \/ \E h \in Handlers : TimeoutWake(h)
    \/ \E h \in Handlers : SpuriousWake(h)
    \/ \E h \in Handlers : reacquire(h)
    \/ \E h \in Handlers : remove(h)
    \/ \E u \in UUIDs : Publish(u)

Spec == Init /\ [][Next]_vars

\* Every thread is scheduled, the clock runs, and a timed wait returns
\* when its time is up.  Each of these steps changes pc or elapsed, so the
\* handlers' variables serve as the subscript.
Fairness ==
    \A h \in Handlers :
        /\ WF_handler_vars(lock_state(h) \/ insert(h) \/ wait(h) \/ reacquire(h) \/ remove(h))
        /\ WF_handler_vars(Tick(h))
        /\ WF_handler_vars(TimeoutWake(h))

LiveSpec == Init /\ [][Next]_vars /\ Fairness

\* Key requests of concurrent clients.
KeyNext ==
    \/ \E c \in Clients, k \in KeyDescStrings, f \in KeyFds : set_key(c, k, f)
    \/ \E c \in Clients : set_key_desc(c)
    \/ \E c \in Clients, k \in KeyDescStrings : unset_key(c, k)
    \/ \E c \in Clients : unset_key_desc(c)
    \/ \E c \in Clients : list_keys(c)

KeySpec == Init /\ [][KeyNext]_vars

\* A create_pool request without redundancy and without encryption.
create_pool_plain(h) == create_pool(h, <<FALSE, 0>>, <<FALSE, "">>, <<FALSE, <<"", "">>>>)

\* Pools created by the simulated engine and destroyed, by concurrent requests.
SimNext ==
    \/ \E h \in Handlers : create_pool_plain(h)
    \/ \E h \in Handlers : handle_pool_create_sim(h)
    \/ \E c \in Clients, p \in PoolPaths : destroy_pool(c, p)
    \/ \E c \in Clients : destroy_engine(c)
    \/ \E c \in Clients : push_remove(c)
    \/ \E c \in Clients : destroy_reply(c)
    \/ \E u \in UUIDs : tree_remove(u)

SimInit == Init /\ is_sim

\* No request is in progress.
Quiet ==
    /\ \A h \in Handlers : pc[h] \in {"create_pool", "done"}
    /\ \A c \in Clients : cpc[c] = "idle"

\* No create_pool request has been made.
NoPoolRequested == \A h \in Handlers : pc[h] = "create_pool"

\* At most one create_pool request has been made.
OnePoolRequested == Cardinality({h \in Handlers : pc[h] # "create_pool"}) <= 1

\* The caller is at its key requests: none for a pool has been made.
KeySession == NoPoolRequested /\ sent.op \in {"none", "set_key", "unset_key", "list_keys"}

\* The caller is at its pool requests: no key is registered.
PoolSession == keys = HashMap_new

\* Every operation of the interface, for one caller that sends its next
\* request when the last one has been answered: its key requests, and once
\* the key store is empty its pool requests, two create_pool among them.
ApiNext ==
    \/ \E h \in Handlers, r \in RedundancyTuples, k \in KeyDescTuples, c \in ClevisTuples :
          Quiet /\ PoolSession /\ NoPoolRequested /\ create_pool(h, r, k, c)
    \/ \E h \in Handlers : Quiet /\ PoolSession /\ OnePoolRequested /\ create_pool_plain(h)
    \/ \E h \in Handlers : handle_pool_create_sim(h)
    \/ \E h \in Handlers : lock_state(h)
    \/ \E h \in Handlers : insert(h)
    \/ \E h \in Handlers : wait(h)
    \/ \E h \in Handlers : Tick(h)
    \/ \E h \in Handlers : TimeoutWake(h)
    \/ \E h \in Handlers : SpuriousWake(h)
    \/ \E h \in Handlers : reacquire(h)
    \/ \E h \in Handlers : remove(h)
    \/ \E u \in UUIDs : Publish(u)
    \/ \E c \in Clients, p \in PoolPaths : Quiet /\ PoolSession /\ destroy_pool(c, p)
    \/ \E c \in Clients : destroy_engine(c)
    \/ \E c \in Clients : push_remove(c)
    \/ \E c \in Clients : destroy_reply(c)
    \/ \E u \in UUIDs : tree_remove(u)
    \/ \E c \in Clients, k \in KeyDescStrings, f \in KeyFds : Quiet /\ KeySession /\ set_key(c, k, f)
    \/ \E c \in Clients : set_key_desc(c)
    \/ \E c \in Clients, k \in KeyDescStrings : Quiet /\ KeySession /\ unset_key(c, k)
    \/ \E c \in Clients : unset_key_desc(c)
    \/ \E c \in Clients, s \in PoolUuidStrings, m \in UnlockMethodStrings :
          Quiet /\ PoolSession /\ unlock_pool(c, s, m)
    \/ \E c \in Clients : Quiet /\ KeySession /\ list_keys(c)
    \/ \E c \in Clients : Quiet /\ PoolSession /\ engine_state_report(c)

ApiSpec == Init /\ [][ApiNext]_vars

SimSpec == SimInit /\ [][SimNext]_vars

TypeOK ==
    /\ pc \in [Handlers -> {"create_pool", "get_pool", "lock", "insert", "wait",
                            "blocked", "woken", "remove", "done", "panicked"}]
    /\ uuid \in [Handlers -> UUIDs \cup {PoolUuid_nil}]
    /\ \A h \in Handlers : Len(reply[h]) <= 1
    /\ timeout \in [Handlers -> BOOLEAN]
    /\ elapsed \in [Handlers -> BOOLEAN]
    /\ DOMAIN POOL_SETUP_STATE \subseteq UUIDs
    /\ lock \in Handlers \cup {NoOwner}
    /\ is_sim \in BOOLEAN
    /\ pools \subseteq UUIDs
    /\ published \subseteq UUIDs
    /\ stored \subseteq published
    /\ early \subseteq published
    /\ tree \subseteq {create_dbus_pool(u) : u \in UUIDs}
    /\ announced \in [UUIDs -> 0..1]
    /\ DOMAIN keys \subseteq ValidKeyDescStrings
    /\ key_handler \in Clients \cup {NoOwner}
    /\ cpc \in [Clients -> {"idle", "destroy_engine", "push_remove", "destroy_reply",
                             "set_key_desc", "unset_key_desc"}]
    /\ cpath \in [Clients -> PoolPaths]
    /\ ckey \in [Clients -> KeyDescStrings \cup {""}]
    /\ cfd \in [Clients -> KeyFds \cup {""}]
    /\ Len(sent.msg) <= 1

(***************************************************************************)
(* Shorthands of the properties below.                                     *)
(***************************************************************************)
\* Thread h has inserted its entry and has not yet returned.
Waiting(h) == pc[h] \in {"wait", "blocked", "woken", "remove"}

\* Thread h has returned from handle_pool_create_wait.
Waited(h) == pc[h] = "done" /\ removed[h] # <<>>

\* The record stored for u in ledger `state` is present.
RecordPresent(state, u) == u \in DOMAIN state /\ state[u] # None

\* The record stored for u in ledger `state` is absent: u -> None.
RecordAbsent(state, u) == u \in DOMAIN state /\ state[u] = None

\* A reply that reports success with created = true.
IsSuccess(r) == r.code = 0 /\ r.payload[1] = TRUE

\* The "not found after creation was requested" reply for u.
IsNotFound(r, u) ==
    /\ r.code # 0
    /\ r.msg = Text("Pool with UUID was not found after creation was requested", u, "")
    /\ r.payload = <<FALSE, <<Path_default, <<>>>>>>

(***************************************************************************)
(* C1.  The pool-setup wait for u replies success (created = true, code 0) *)
(* if and only if the entry it took out of the ledger held a present       *)
(* completion record; the payload is the record the producer published for *)
(* u; and the step that reads the entry is the step that removes it, taken *)
(* with the mutex held.                                                    *)
(***************************************************************************)
C1_ReplyOfTakenEntry ==
    \A h \in Handlers :
        Waited(h) =>
            LET taken == removed[h][1]
                r     == reply[h][1]
            IN  /\ Len(reply[h]) = 1
                /\ IsSuccess(r) <=> (taken # None /\ taken[1] # None)
                /\ IsSuccess(r) =>
                      /\ uuid[h] \in published
                      /\ r.payload[2] = CompletionRecord(uuid[h])
                      /\ r.payload[2] = taken[1][1]
                /\ ~IsSuccess(r) => IsNotFound(r, uuid[h])

C1_ReadAndRemoveTogether ==
    \A h \in Handlers :
        removed'[h] # removed[h] =>
            /\ lock = h
            /\ removed'[h] = <<HashMap_get(POOL_SETUP_STATE, uuid[h])>>
            /\ uuid[h] \notin DOMAIN POOL_SETUP_STATE'
            /\ Len(reply'[h]) = 1

C1_SuccessIffRecordPresent == []C1_ReplyOfTakenEntry /\ [][C1_ReadAndRemoveTogether]_vars

\* One wait has returned the published record while another has returned the error.
C1_Witness ==
    \E h1, h2 \in Handlers :
        /\ Waited(h1) /\ IsSuccess(reply[h1][1])
        /\ removed[h1] = <<Some(Some(CompletionRecord(uuid[h1])))>>
        /\ Waited(h2) /\ ~IsSuccess(reply[h2][1])
        /\ removed[h2] = <<Some(None)>>

(***************************************************************************)
(* C2.  Every pool-setup wait returns a reply.  A thread that has entered  *)
(* handle_pool_create_wait reaches its return even if the producer never   *)
(* publishes; a turn of the wait loop taken when the time is up, or when   *)
(* the key is not in the ledger, ends the wait; and a wait that ends       *)
(* without a present record replies with a non-zero code, the "not found   *)
(* after creation was requested" text and the default payload.             *)
(* The key of a waiting thread never leaves the ledger in a reachable      *)
(* state, so that arm is stated of the loop and the reply on every ledger  *)
(* over UUIDs (C2_KeyVanished).                                            *)
(***************************************************************************)
Ledgers ==
    UNION { [D -> {None} \cup {Some(CompletionRecord(v)) : v \in UUIDs}] : D \in SUBSET UUIDs }

C2_KeyVanished ==
    \A st \in Ledgers, u \in UUIDs, time_up \in BOOLEAN :
        u \notin DOMAIN st =>
            /\ wait_timeout_while(st, u, time_up) = "ready"
            /\ IsNotFound(wait_reply(HashMap_get(st, u), u), u)
            /\ remove_entry(st, u) = st

C2_ErrorOnAbsent ==
    \A h \in Handlers :
        /\ Waited(h) /\ removed[h][1] \in {None, Some(None)} =>
              /\ Len(reply[h]) = 1
              /\ IsNotFound(reply[h][1], uuid[h])
        /\ Waited(h) /\ timeout[h] => removed[h][1] = Some(None)

C2_TurnEndsWait ==
    \A h \in Handlers :
        (pc[h] = "wait" /\ pc'[h] # "wait"
            /\ (elapsed[h] \/ uuid[h] \notin DOMAIN POOL_SETUP_STATE))
        => pc'[h] = "remove"

C2_WaitAlwaysReplies ==
    /\ \A h \in Handlers : (pc[h] = "lock") ~> (pc[h] = "done" /\ Len(reply[h]) = 1)
    /\ [](C2_ErrorOnAbsent /\ C2_KeyVanished)
    /\ [][C2_TurnEndsWait]_vars

\* A wait has timed out with nothing published for its identifier, and has replied.
C2_Witness ==
    \E h \in Handlers :
        /\ Waited(h) /\ timeout[h]
        /\ uuid[h] \notin published
        /\ IsNotFound(reply[h][1], uuid[h])

(***************************************************************************)
(* C3.  No stale ledger entry: every key of the ledger belongs to a thread *)
(* that has inserted it and has not returned; a thread that has returned   *)
(* has left no entry for its identifier; the ledger is empty when no       *)
(* create-pool request is in progress.                                     *)
(***************************************************************************)
C3_NoStaleEntry ==
    /\ \A u \in DOMAIN POOL_SETUP_STATE : \E h \in Handlers : uuid[h] = u /\ Waiting(h)
    /\ \A h \in Handlers : pc[h] = "done" => uuid[h] \notin DOMAIN POOL_SETUP_STATE
    /\ (\A h \in Handlers : pc[h] \in {"create_pool", "done", "panicked"})
          => DOMAIN POOL_SETUP_STATE = {}

\* All requests are over, one wait by time-out and one by success, and the ledger is empty.
C3_Witness ==
    /\ \A h \in Handlers : pc[h] = "done"
    /\ \E h \in Handlers : Waited(h) /\ timeout[h] /\ ~IsSuccess(reply[h][1])
    /\ \E h \in Handlers : Waited(h) /\ IsSuccess(reply[h][1])
    /\ DOMAIN POOL_SETUP_STATE = {}

(***************************************************************************)
(* C4.  Lost-wakeup resistance: the mutex is held from its acquisition     *)
(* through the insert to the first turn of the wait loop; no thread is     *)
(* blocked on the condition variable while its record is present; no wait  *)
(* ends by time-out while its record is present; and a record the producer *)
(* stored for u is answered with success.                                  *)
(***************************************************************************)
C4_NoLostWakeup ==
    \A h \in Handlers :
        /\ pc[h] \in {"insert", "wait", "remove"} => lock = h
        /\ pc[h] = "blocked" => RecordAbsent(POOL_SETUP_STATE, uuid[h])
        /\ pc[h] = "remove" /\ timeout[h] => RecordAbsent(POOL_SETUP_STATE, uuid[h])
        /\ Waited(h) /\ uuid[h] \in stored => IsSuccess(reply[h][1]) /\ ~timeout[h]
        /\ Waiting(h) /\ uuid[h] \in stored => RecordPresent(POOL_SETUP_STATE, uuid[h])

\* The producer stored the record right after the thread blocked; the
\* thread was woken and replied success before its time was up.
C4_Witness ==
    \E h \in Handlers :
        /\ Waited(h) /\ uuid[h] \in stored
        /\ ~elapsed[h]
        /\ IsSuccess(reply[h][1])

(***************************************************************************)
(* C5.  Each ledger entry is finalized exactly once: an entry is taken out *)
(* of the ledger at most once, and exactly once when its thread has        *)
(* returned, by that thread; a thread that has returned has produced one   *)
(* reply, none before; a reply with created = true has code 0; and a       *)
(* completion record is carried by at most one reply.                      *)
(***************************************************************************)
C5_FinalizedOnce ==
    /\ \A u \in UUIDs :
          /\ finalized[u] <= 1
          /\ finalized[u] = 1 => \E h \in Handlers : uuid[h] = u /\ Waited(h)
          /\ Cardinality({h \in Handlers :
                            /\ reply[h] # <<>>
                            /\ reply[h][1].payload[2] = CompletionRecord(u)}) <= 1
    /\ \A h \in Handlers :
          /\ Waited(h) => finalized[uuid[h]] = 1
          /\ Len(reply[h]) = IF pc[h] = "done" THEN 1 ELSE 0
          /\ reply[h] # <<>> /\ reply[h][1].payload[1] => reply[h][1].code = 0

\* One entry was finalized by the consumption of its record, another by the time-out.
C5_Witness ==
    \E h1, h2 \in Handlers :
        /\ Waited(h1) /\ IsSuccess(reply[h1][1]) /\ finalized[uuid[h1]] = 1
        /\ Waited(h2) /\ timeout[h2] /\ finalized[uuid[h2]] = 1

(***************************************************************************)
(* C6.  Operations on one identifier are serialized: no two threads are    *)
(* between insert and remove for the same identifier, and a thread that is *)
(* about to insert u finds no entry for u, so its insert overwrites        *)
(* nothing.                                                                *)
(***************************************************************************)
C6_OneOwnerPerIdentifier ==
    /\ \A h1, h2 \in Handlers :
          (h1 # h2 /\ Waiting(h1) /\ Waiting(h2)) => uuid[h1] # uuid[h2]
    /\ \A h \in Handlers :
          pc[h] \in {"lock", "insert"} => uuid[h] \notin DOMAIN POOL_SETUP_STATE

\* A thread has just inserted its entry while the present record of another
\* identifier is still in the ledger.
C6_Witness ==
    \E h1, h2 \in Handlers :
        /\ Waiting(h1) /\ RecordPresent(POOL_SETUP_STATE, uuid[h1])
        /\ pc[h2] = "wait" /\ RecordAbsent(POOL_SETUP_STATE, uuid[h2])
        /\ uuid[h1] # uuid[h2]

(***************************************************************************)
(* C7.  Independence of identifiers: the entry of v changes only in the    *)
(* insert or remove of the thread whose identifier is v or in the          *)
(* producer's publication for v; a thread leaves the wait loop while its   *)
(* record is absent only when its time is up, whoever woke it; and the     *)
(* mutex is held by a thread only in its insert, loop-turn and remove      *)
(* steps, never while it is blocked or woken.                              *)
(***************************************************************************)
C7_Frame ==
    \A v \in UUIDs :
        HashMap_get(POOL_SETUP_STATE, v) # HashMap_get(POOL_SETUP_STATE', v) =>
            \/ \E h \in Handlers :
                  uuid[h] = v /\ pc[h] \in {"insert", "remove"} /\ pc'[h] # pc[h]
            \/ v \in published' \ published

C7_NoEarlyStop ==
    \A h \in Handlers :
        /\ (pc[h] = "wait" /\ pc'[h] = "remove" /\ RecordAbsent(POOL_SETUP_STATE, uuid[h]))
              => elapsed[h] /\ timeout'[h]
        /\ (pc[h] = "woken" /\ pc'[h] # "woken") => pc'[h] = "wait"

C7_LockOnlyInSections ==
    \A h \in Handlers :
        /\ lock = h => pc[h] \in {"insert", "wait", "remove"}
        /\ pc[h] \in {"blocked", "woken"} => lock # h
        /\ pc[h] = "remove" /\ ~timeout[h] => ~RecordAbsent(POOL_SETUP_STATE, uuid[h])

C7_IndependentIdentifiers == []C7_LockOnlyInSections /\ [][C7_Frame /\ C7_NoEarlyStop]_vars

\* The record of one identifier is present and its thread woken, while another
\* thread, woken too, evaluates its own condition and finds its record absent.
C7_Witness ==
    \E h1, h2 \in Handlers :
        /\ pc[h1] = "woken" /\ RecordPresent(POOL_SETUP_STATE, uuid[h1])
        /\ pc[h2] = "wait" /\ ~elapsed[h2] /\ RecordAbsent(POOL_SETUP_STATE, uuid[h2])
        /\ uuid[h2] \in published

(***************************************************************************)
(* C8.  A create-pool request inserts a ledger entry if and only if the    *)
(* engine returned Created(u) and the engine is not simulated.  With the   *)
(* simulated engine the ledger stays empty and a Created pool is answered  *)
(* (true, (pool path, device paths)) with code 0; after Identity, an       *)
(* engine error or a validation failure the request has not waited and     *)
(* replies the default payload.                                            *)
(***************************************************************************)
C8_InsertIffCreatedDeferred ==
    /\ \A u \in DOMAIN POOL_SETUP_STATE : ~is_sim /\ u \in pools
    /\ is_sim => \A u \in UUIDs : finalized[u] = 0
    /\ \A h \in Handlers :
          /\ (pc[h] \in {"lock", "insert"} \/ Waiting(h) \/ removed[h] # <<>>)
                => (uuid[h] # PoolUuid_nil /\ ~is_sim /\ engine_calls[h] = 1)
          /\ (pc[h] = "done" /\ uuid[h] # PoolUuid_nil /\ ~is_sim)
                => (removed[h] # <<>> /\ finalized[uuid[h]] = 1)
          /\ (pc[h] = "done" /\ uuid[h] # PoolUuid_nil /\ is_sim)
                => reply[h] = <<[payload |-> <<TRUE, CompletionRecord(uuid[h])>>,
                                 code |-> 0, msg |-> OK_STRING]>>
          /\ (pc[h] = "done" /\ uuid[h] = PoolUuid_nil)
                => (removed[h] = <<>> /\ reply[h][1].payload = <<FALSE, <<Path_default, <<>>>>>>)
          /\ pc[h] = "get_pool" => is_sim /\ uuid[h] # PoolUuid_nil

\* The simulated engine created two pools, both answered in the call, and no
\* ledger entry was made.
C8_Witness ==
    /\ is_sim
    /\ \E h1, h2 \in Handlers :
          /\ h1 # h2
          /\ pc[h1] = "done" /\ uuid[h1] # PoolUuid_nil /\ IsSuccess(reply[h1][1])
          /\ pc[h2] = "done" /\ uuid[h2] # PoolUuid_nil /\ IsSuccess(reply[h2][1])
    /\ DOMAIN POOL_SETUP_STATE = {}

(***************************************************************************)
(* C9.  A create-pool step whose redundancy code is present and not 0      *)
(* replies code 1, the message naming that code and the default payload,   *)
(* calls no engine operation and leaves the ledger alone; a step whose     *)
(* redundancy code is absent, or present and 0, never gives that reply.    *)
(***************************************************************************)
RedundancyText == "code does not correspond to any redundancy"

C9_Step(h, r, k, c) ==
    \/ IF r[1] /\ r[2] # 0
          THEN /\ reply'[h] = <<[payload |-> <<FALSE, <<Path_default, <<>>>>>>,
                                 code |-> 1,
                                 msg |-> [kind |-> RedundancyText, n |-> r[2], s |-> ""]]>>
               /\ pc'[h] = "done"
               /\ engine_calls' = engine_calls
               /\ UNCHANGED <<engine_arg, pools, next_uuid, POOL_SETUP_STATE, lock, uuid>>
          ELSE reply'[h] = <<>> \/ reply'[h][1].msg.kind # RedundancyText
    \/ ~create_pool(h, r, k, c)

C9_UnsupportedRedundancyRejected ==
    [][\A h \in Handlers :
          (pc[h] = "create_pool" /\ pc'[h] # "create_pool") =>
              \A r \in RedundancyTuples, k \in KeyDescTuples, c \in ClevisTuples :
                  C9_Step(h, r, k, c)]_vars

\* One request was rejected for its redundancy code 7 without an engine
\* call, while another request went on to the engine.
C9_Witness ==
    \E h1, h2 \in Handlers :
        /\ pc[h1] = "done" /\ engine_calls[h1] = 0
        /\ reply[h1][1].code = 1
        /\ reply[h1][1].msg = [kind |-> RedundancyText, n |-> 7, s |-> ""]
        /\ reply[h1][1].payload = <<FALSE, <<Path_default, <<>>>>>>
        /\ engine_calls[h2] = 1

(***************************************************************************)
(* C10.  A create-pool step with a present key description of invalid      *)
(* format, or a present Clevis pair whose policy text does not parse,      *)
(* replies a non-zero code with the default payload and does not call the  *)
(* engine.  With both parameters absent the step gives no such rejection,  *)
(* and, the redundancy code being accepted, it calls the engine with no    *)
(* encryption info.                                                        *)
(***************************************************************************)
EncryptionRejections == {"invalid key description", "json parse error"}

C10_Step(h, r, k, c) ==
    \/  LET kd_invalid   == k[1] /\ k[2] \notin ValidKeyDescStrings
            json_invalid == c[1] /\ c[2][2] \notin ParseableJsonTexts
            both_absent  == ~k[1] /\ ~c[1]
            red_accepted == ~r[1] \/ r[2] = 0
        IN  /\ (kd_invalid \/ json_invalid) =>
                  /\ Len(reply'[h]) = 1
                  /\ reply'[h][1].code # 0
                  /\ reply'[h][1].payload = <<FALSE, <<Path_default, <<>>>>>>
                  /\ pc'[h] = "done"
                  /\ engine_calls' = engine_calls
                  /\ UNCHANGED <<engine_arg, pools, next_uuid, POOL_SETUP_STATE, lock, uuid>>
            /\ (red_accepted /\ (kd_invalid \/ json_invalid)) =>
                  reply'[h][1].msg.kind \in EncryptionRejections
            /\ both_absent =>
                  (reply'[h] = <<>> \/ reply'[h][1].msg.kind \notin EncryptionRejections)
            /\ (both_absent /\ red_accepted) =>
                  /\ engine_calls'[h] = engine_calls[h] + 1
                  /\ engine_arg' = <<>>
            /\ engine_calls'[h] # engine_calls[h] =>
                  (red_accepted /\ ~kd_invalid /\ ~json_invalid)
    \/ ~create_pool(h, r, k, c)

C10_MalformedEncryptionRejected ==
    [][\A h \in Handlers :
          (pc[h] = "create_pool" /\ pc'[h] # "create_pool") =>
              \A r \in RedundancyTuples, k \in KeyDescTuples, c \in ClevisTuples :
                  C10_Step(h, r, k, c)]_vars

\* One request was rejected by the validation of its encryption parameters
\* without an engine call, and the engine's latest call carried no
\* encryption info.
C10_Witness ==
    \E h1, h2 \in Handlers :
        /\ pc[h1] = "done" /\ engine_calls[h1] = 0
        /\ reply[h1][1].code # 0
        /\ reply[h1][1].msg.kind \in EncryptionRejections
        /\ engine_calls[h2] = 1
        /\ engine_arg = <<>>

(***************************************************************************)
(* Shorthands for the replies to client requests.                          *)
(***************************************************************************)
\* The latest reply answers a request of operation op.
Answered(op) == sent.op = op /\ sent.msg # <<>>

\* A key request whose key description try_from rejects.
InvalidKeyDesc(s) == s \notin {"keydesc", "key2"}

\* C11: in set key and unset key the key description is validated before
\* any engine call: a request whose key description is invalid invokes no
\* engine operation at all, it never obtains the engine's key handler, and
\* its reply carries a non-zero code with the default payload.
C11_ValidationBeforeEngine ==
    /\ \A c \in Clients :
          (cpc[c] \in {"set_key_desc", "unset_key_desc"} /\ InvalidKeyDesc(ckey[c]))
             => key_handler # c
    /\ (Answered("set_key") /\ InvalidKeyDesc(sent.key))
          => /\ sent.act = NoAction
             /\ sent.msg[1].code # 0
             /\ sent.msg[1].payload = <<FALSE, FALSE>>
    /\ (Answered("unset_key") /\ InvalidKeyDesc(sent.key))
          => /\ sent.act = NoAction
             /\ sent.msg[1].code # 0
             /\ sent.msg[1].payload = FALSE

\* A request with an invalid key description holds the key handler's guard.
C11_Witness ==
    \E c \in Clients :
        /\ cpc[c] \in {"set_key_desc", "unset_key_desc"}
        /\ InvalidKeyDesc(ckey[c])
        /\ key_handler = c

\* The success reply of destroy_pool that reports nothing deleted.
NothingDeleted == [payload |-> <<FALSE, <<"uuid", 0>>>>, code |-> 0, msg |-> OK_STRING]

\* The request of client c for pool_path p is answered in this step as one
\* that changed nothing: no engine call, no announcement.
C12_NoOp(c, p) ==
    /\ sent' = [op |-> "destroy_pool", key |-> "", path |-> p, act |-> NoAction,
                msg |-> <<NothingDeleted>>]
    /\ cpc'[c] = "idle"
    /\ pools' = pools
    /\ announced' = announced
    /\ tree' = tree

C12_Step(c, p) == C12_NoOp(c, p) \/ p \in tree \/ ~destroy_pool(c, p)

Announcing(c, u) ==
    /\ cpc[c] = "push_remove"
    /\ cpath[c] = <<"pool", u>>
    /\ caction[c] = [tag |-> "Deleted", ids |-> <<u>>]

\* Client c has announced the removal of the path of u and not yet replied.
Announced(c, u) ==
    /\ cpc[c] = "destroy_reply"
    /\ cpath[c] = <<"pool", u>>
    /\ caction[c] = [tag |-> "Deleted", ids |-> <<u>>]

\* The engine has deleted pool u.
EngineDeleted(u) == u < next_uuid /\ u \notin pools

\* Announcements and the engine's deletions agree, at every moment.
C13_AnnouncedIffDeleted ==
    /\ \A u \in UUIDs :
          /\ announced[u] <= 1
          /\ announced[u] = 1 => EngineDeleted(u)
          /\ EngineDeleted(u) =>
                (announced[u] = 1 \/ \E c \in Clients : Announcing(c, u))
          /\ Cardinality({c \in Clients : Announcing(c, u) \/ Announced(c, u)}) <= 1
    /\ \A c \in Clients :
          /\ cpc[c] = "push_remove" => \E u \in UUIDs : Announcing(c, u)
          /\ cpc[c] = "destroy_reply" => \E u \in UUIDs : Announced(c, u) /\ announced[u] = 1

\* The order within a request: the announcement follows the engine's
\* Deleted(u), the reply (true, u, 0) follows the announcement, and a reply
\* for Identity or an error comes with no announcement.
C13_Order ==
    /\ \A u \in UUIDs :
          announced'[u] # announced[u] =>
             \E c \in Clients : Announcing(c, u) /\ Announced(c, u)' /\ sent' = sent
    /\ \A c \in Clients :
          (cpc[c] = "destroy_engine" /\ cpc'[c] # "destroy_engine") =>
             /\ announced' = announced
             /\ \/ \E u \in UUIDs : u \in pools /\ u \notin pools' /\ Announcing(c, u)' /\ sent' = sent
                \/ /\ pools' = pools
                   /\ sent'.act.tag \in {"Identity", "Err"}
                   /\ sent'.msg[1].payload = <<FALSE, <<"uuid", 0>>>>
    /\ \A c \in Clients :
          (cpc[c] = "destroy_reply" /\ cpc'[c] # "destroy_reply") =>
             \E u \in UUIDs :
                /\ Announced(c, u)
                /\ announced[u] = 1 /\ announced' = announced
                /\ sent'.act = [tag |-> "Deleted", ids |-> <<u>>]
                /\ sent'.msg = <<[payload |-> <<TRUE, <<"uuid", u>>>>, code |-> 0, msg |-> OK_STRING]>>

\* C13: destroy pool announces the removal of the pool's handle if and only
\* if the engine reported Deleted(u): exactly once, after the engine call
\* has returned and before the reply (true, u, 0); never for Identity or
\* an error.
C13_AnnouncementIffDeleted == []C13_AnnouncedIffDeleted /\ [][C13_Order]_vars

\* One request was answered (true, u, 0) after its announcement, and a
\* second request for the same path is at the engine, which holds no pool u
\* any more (Identity).
C13_Witness ==
    \E u \in UUIDs, c \in Clients :
        /\ Answered("destroy_pool")
        /\ sent.act = [tag |-> "Deleted", ids |-> <<u>>]
        /\ sent.msg[1].payload = <<TRUE, <<"uuid", u>>>>
        /\ announced[u] = 1
        /\ cpc[c] = "destroy_engine" /\ cpath[c] = <<"pool", u>>

\* The key store with description k taken out.
Without(ks, k) == [x \in DOMAIN ks \ {k} |-> ks[x]]

\* The step of client c that answers its unset key request for the valid
\* description it carries: for a description that is not registered the
\* reply is deleted = false with code 0 and the key store stays as it is;
\* for a registered one, unless the engine fails, the reply is deleted =
\* true with code 0 and the description is registered no longer, all other
\* keys being kept.
C14_Answer(c) ==
    LET k == ckey[c] IN
      IF k \notin DOMAIN keys
        THEN /\ sent'.msg = <<[payload |-> FALSE, code |-> 0, msg |-> OK_STRING]>>
             /\ sent'.key = k
             /\ keys' = keys
        ELSE \/ /\ sent'.msg = <<[payload |-> TRUE, code |-> 0, msg |-> OK_STRING]>>
                /\ sent'.key = k
                /\ keys' = Without(keys, k)
             \/ /\ sent'.act.tag = "Err"
                /\ sent'.msg[1].code # 0
                /\ keys' = keys

C14_Step(c) ==
    (cpc[c] = "unset_key_desc" /\ cpc'[c] # "unset_key_desc" /\ ~InvalidKeyDesc(ckey[c]))
       => C14_Answer(c)

\* C14: unset key is idempotent.  In every state that set key and unset key
\* requests lead to, unset key for a valid description that is not
\* registered replies deleted = false with code 0 and leaves the registered
\* keys unchanged, so that the same request repeated gets the same reply;
\* for a registered description it replies deleted = true and unregisters
\* it, so that the next request for it replies deleted = false.
C14_UnsetKeyIdempotent == [][\A c \in Clients : C14_Step(c)]_vars

\* "keydesc" was set and unset and then unset once more, which was answered
\* deleted = false with code 0, while "key2" has stayed registered.
C14_Witness ==
    /\ Answered("unset_key")
    /\ sent.key = "keydesc"
    /\ sent.act.tag = "Identity"
    /\ sent.msg[1].payload = FALSE /\ sent.msg[1].code = 0
    /\ DOMAIN keys = {"key2"}

\* The success reply of the simulated create_pool for pool u.
SimCreated(u) ==
    [payload |-> <<TRUE, <<<<"pool", u>>, <<<<"blockdev", u>>>>>>>>, code |-> 0, msg |-> OK_STRING]

\* A handler between the engine's Created(u) and its get_pool finds pool u
\* in the engine, no handler has failed the expect, and a handler that has
\* returned has replied.
C18_PoolPresent ==
    \A h \in Handlers :
        /\ pc[h] # "panicked"
        /\ pc[h] = "get_pool" => (uuid[h] \in UUIDs /\ uuid[h] \in pools)
        /\ pc[h] = "done" => Len(reply[h]) = 1

\* The get_pool step ends the request with the success reply for u.
C18_Lookup ==
    \A h \in Handlers :
        (pc[h] = "get_pool" /\ pc'[h] # "get_pool") =>
            /\ pc'[h] = "done"
            /\ reply'[h] = <<SimCreated(uuid[h])>>

\* C18: in simulated mode the get_pool that follows Created(u) finds pool u
\* under every interleaving with concurrent create pool and destroy pool
\* requests: the expect never fails and the request ends with its reply.
C18_SimLookupNeverFails == []C18_PoolPresent /\ [][C18_Lookup]_vars

\* A handler is between Created(u) and get_pool while a destroy pool
\* request has just had another pool deleted by the engine.
C18_Witness ==
    \E h \in Handlers, c \in Clients :
        /\ is_sim
        /\ pc[h] = "get_pool"
        /\ cpc[c] = "push_remove"
        /\ cpath[c] # <<"pool", uuid[h]>>

\* The publish step for u has run after the engine returned Created(u) and
\* before the waiting handler gave up: before the handler inserted its
\* entry (early), or while the entry was in the ledger (stored).
PublishedInTime(u) == u \in early \cup stored

\* C17: no completion is lost end to end.  In deferred mode, when the
\* producer's publish step for u runs after the engine returned Created(u)
\* and before the time of the handler's wait is up, be it before the
\* handler has inserted u -> absent, the handler replies success with the
\* completion record of u and does not time out with an error.
C17_NoCompletionLost ==
    \A h \in Handlers :
        (Waited(h) /\ PublishedInTime(uuid[h])) =>
            /\ ~timeout[h]
            /\ reply[h] = <<[payload |-> <<TRUE, <<<<"pool", uuid[h]>>, <<<<"blockdev", uuid[h]>>>>>>>>,
                             code |-> 0, msg |-> OK_STRING]>>

\* The publication of u ran before the handler inserted its entry, found
\* no entry and stored nothing; the handler then waited its time out and
\* replied with the not-found error.
C17_Witness ==
    \E h \in Handlers :
        /\ Waited(h)
        /\ uuid[h] \in early
        /\ uuid[h] \notin stored
        /\ timeout[h]
        /\ IsNotFound(reply[h][1], uuid[h])

\* The identifiers ids rendered as strings.
Rendered(ids) == [i \in DOMAIN ids |-> <<"uuid", ids[i]>>]

\* The payload documented for a successful reply of a client operation to
\* the engine's action.
DocumentedPayload(op, act) ==
    IF op = "set_key"
      THEN IF act.tag = "Created" THEN <<TRUE, FALSE>>
           ELSE IF act.tag = "ValueChanged" THEN <<TRUE, TRUE>>
           ELSE <<FALSE, FALSE>>
    ELSE IF op = "unset_key"
      THEN act.tag = "Deleted"
    ELSE IF op = "destroy_pool"
      THEN IF act.tag = "Deleted" THEN <<TRUE, <<"uuid", act.ids[1]>>>>
           ELSE <<FALSE, <<"uuid", 0>>>>
    ELSE IF act.ids # <<>> THEN <<TRUE, Rendered(act.ids)>>
    ELSE <<FALSE, <<>>>>

\* The actions the engine can report to a client operation.
ActionsOf(op) ==
    IF op = "set_key" THEN {"Created", "ValueChanged", "Identity"}
    ELSE IF op = "unset_key" THEN {"Deleted", "Identity"}
    ELSE IF op = "destroy_pool" THEN {"Deleted", "Identity", "None"}
    ELSE {"Unlocked"}

\* C15: the payload of every successful reply is the documented function
\* of the engine's action.  set key: (true, false) for Created, (true, true)
\* for ValueChanged, (false, false) for Identity; unset key: true exactly
\* for Deleted; destroy pool: (true, u) for Deleted(u), (false, nil) for
\* Identity; create pool: created = true exactly for Created; unlock pool:
\* (true, changed identifiers) when some were changed, (false, empty)
\* otherwise.  A successful reply has a true flag for no Identity and a
\* false flag for no Created, ValueChanged or Deleted.
C15_PayloadIsFunctionOfAction ==
    /\ \A op \in {"set_key", "unset_key", "destroy_pool", "unlock_pool"} :
          (Answered(op) /\ sent.msg[1].code = 0) =>
              /\ sent.act.tag \in ActionsOf(op)
              /\ sent.msg[1].payload = DocumentedPayload(op, sent.act)
    /\ \A op \in {"set_key", "unset_key", "destroy_pool", "unlock_pool"} :
          (Answered(op) /\ sent.act.tag \in ActionsOf(op) \ {"None"}) => sent.msg[1].code = 0
    /\ \A h \in Handlers :
          (reply[h] # <<>> /\ reply[h][1].code = 0) =>
              /\ engine_calls[h] = 1
              /\ reply[h][1].payload[1] = (uuid[h] # 0)
              /\ uuid[h] = 0 => reply[h][1].payload = <<FALSE, <<<<"/", 0>>, <<>>>>>>

\* One create pool request was answered for Created, a second for Identity,
\* and the destroy pool request answered last had the pool deleted.
C15_Witness ==
    \E h, g \in Handlers :
        /\ reply[h] # <<>> /\ reply[h][1].code = 0 /\ reply[h][1].payload[1] = TRUE
        /\ reply[g] # <<>> /\ reply[g][1].code = 0 /\ reply[g][1].payload[1] = FALSE
        /\ uuid[g] = 0
        /\ Answered("destroy_pool")
        /\ sent.act = [tag |-> "Deleted", ids |-> <<uuid[h]>>]
        /\ sent.msg[1].payload = <<TRUE, <<"uuid", uuid[h]>>>>

\* The default payload of a client operation.
DefaultPayload(op) ==
    IF op = "set_key" THEN <<FALSE, FALSE>>
    ELSE IF op = "unset_key" THEN FALSE
    ELSE IF op = "destroy_pool" THEN <<FALSE, <<"uuid", 0>>>>
    ELSE IF op = "unlock_pool" THEN <<FALSE, <<>>>>
    ELSE IF op = "list_keys" THEN <<>>
    ELSE ""

\* C16: for every operation (create pool, destroy pool, unlock pool, set
\* key, unset key, list keys, engine state report) every reply with a
\* non-zero code carries the operation's default payload, whether the
\* failure came from validation, from the engine or from the pool-setup
\* wait.
C16_ErrorCarriesDefault ==
    /\ \A op \in {"destroy_pool", "unlock_pool", "set_key", "unset_key", "list_keys",
                  "engine_state_report"} :
          (Answered(op) /\ sent.msg[1].code # 0) => sent.msg[1].payload = DefaultPayload(op)
    /\ \A h \in Handlers :
          (reply[h] # <<>> /\ reply[h][1].code # 0) =>
              reply[h][1].payload = <<FALSE, <<<<"/", 0>>, <<>>>>>>

\* A create pool request was rejected by validation, a second one timed
\* out in the pool-setup wait, and the destroy pool request answered last
\* failed in the engine: each reply has a non-zero code.
C16_Witness ==
    \E h, g \in Handlers :
        /\ pc[h] = "done" /\ engine_calls[h] = 0 /\ reply[h][1].code # 0
        /\ Waited(g) /\ timeout[g] /\ reply[g][1].code # 0
        /\ Answered("destroy_pool")
        /\ sent.act.tag = "Err"
        /\ sent.msg[1].code # 0

====
